---- MODULE Spec2Model ----
(***************************************************************************)
(* Model of controllers/genreController.js: the Genre request handlers of  *)
(* the library catalogue, acting on the Genre, Book and BookInstance       *)
(* collections of the document store.                                      *)
(***************************************************************************)
EXTENDS Integers, Sequences, FiniteSets, TLC

\* ------------------------------------------------------------------ bounds
MaxPad == 1
MaxGenres == 2
MaxBooks == 2
MaxInstances == 2
MaxRequests == 3

\* isLength({ min: 3 })
MinNameLen == 3

\* The names a client submits are a core with whitespace around it. The cores:
\* nothing, a name one character short of the minimum, a plain name of the
\* minimum length, and a name holding a character that escape() rewrites.
Cores == {<<>>, <<"a", "a">>, <<"a", "a", "a">>, <<"a", "&", "a">>}

Pad(n) == [i \in 1..n |-> " "]

Pads == {ij \in (0..MaxPad) \X (0..MaxPad) : ij[1] + ij[2] <= MaxPad}

Names == {Pad(ij[1]) \o c \o Pad(ij[2]) : c \in Cores, ij \in Pads}

GenreIds == 1..MaxGenres
BookIds == 1..MaxBooks
InstanceIds == 1..MaxInstances
Slots == 1..MaxRequests

\* ------------------------------------------------------- express-validator
RECURSIVE TrimLeft(_)
TrimLeft(s) ==
  IF s # <<>> /\ Head(s) = " " THEN TrimLeft(Tail(s)) ELSE s

RECURSIVE TrimRight(_)
TrimRight(s) ==
  IF s # <<>> /\ s[Len(s)] = " " THEN TrimRight(SubSeq(s, 1, Len(s) - 1)) ELSE s

\* .trim()
Trim(s) == TrimRight(TrimLeft(s))

\* isLength with its bound off by one.
IsLength_OffByOne(s, min) == Len(s) >= min - 1

\* .isLength({ min })
IsLength(s, min) == Len(s) >= min

EscapeChar(c) ==
  CASE c = "&" -> <<"&", "a", "m", "p", ";">>
    [] c = "<" -> <<"&", "l", "t", ";">>
    [] c = ">" -> <<"&", "g", "t", ";">>
    [] OTHER -> <<c>>

RECURSIVE Escape(_)
\* .escape()
Escape(s) ==
  IF s = <<>> THEN <<>> ELSE EscapeChar(Head(s)) \o Escape(Tail(s))

\* The chain without its escape().
BodyName_NoEscape(name) ==
  [value |-> Trim(name),
   errors |-> IF IsLength(Trim(name), MinNameLen)
              THEN <<>>
              ELSE <<"Genre name must contain at least 3 characters">>]

\* body("name", msg).trim().isLength({ min: 3 }).escape(): the sanitizers
\* and the validator run in chain order, so the length is tested on the
\* trimmed value and req.body.name ends up trimmed and escaped.
BodyName(name) ==
  [value |-> Escape(Trim(name)),
   errors |-> IF IsLength(Trim(name), MinNameLen)
              THEN <<>>
              ELSE <<"Genre name must contain at least 3 characters">>]

\* ------------------------------------------------------------------- state
VARIABLES genres, books, instances, nextGenreId, res, reqs

vars == <<genres, books, instances, nextGenreId, res, reqs>>
store == <<genres, books, instances, nextGenreId>>

\* A Genre document is [id, name]; a Book is [id, genre], genre being the set
\* of Genre ids it references; a BookInstance is [id, book].

\* ---------------------------------------------------------- store queries
\* Genre.findById(id): the documents with that _id (none or one).
FindById(gs, id) == {g \in gs : g.id = id}

\* Genre.findOne({ name }): the documents it may return (any one match).
FindOne(gs, name) == {g \in gs : g.name = name}

\* Book.find matching only the Books whose genre array is exactly [id].
BookFind_ExactMatch(bs, id) == {b \in bs : b.genre = {id}}

\* Book.find({ genre: id }): a Book matches when its genre array holds id.
BookFind(bs, id) == {b \in bs : id \in b.genre}

\* Genre.findByIdAndDelete(id)
FindByIdAndDelete(gs, id) == {g \in gs : g.id # id}

\* Book.deleteMany({ genre: { $in: [id] } })
BookDeleteMany(bs, id) == {b \in bs : b.genre \cap {id} = {}}

\* Bookinstance.deleteMany with $nin in place of $in.
BookinstanceDeleteMany_Inverted(is, bookIds) == {i \in is : i.book \in bookIds}

\* Bookinstance.deleteMany({ book: { $in: bookIds } })
BookinstanceDeleteMany(is, bookIds) == {i \in is : i.book \notin bookIds}

\* A save that replaces the document already bearing the name.
Save_ReplaceByName(gs, id, name) ==
  {g \in gs : g.name # name} \cup {[id |-> id, name |-> name]}

\* genre.save(): insert the new document.
Save(gs, id, name) == gs \cup {[id |-> id, name |-> name]}

\* Genre.findOneAndUpdate({ _id: id }, genre): overwrite the name of the
\* document with that _id; no upsert, so no document is added.
FindOneAndUpdate(gs, id, name) ==
  {IF g.id = id THEN [id |-> id, name |-> name] ELSE g : g \in gs}

\* The store-level validators that runValidators: true re-runs on the update:
\* the name has the minimum length, tested on the value as submitted.
SchemaValidates(name) == Len(name) >= MinNameLen

\* genre.url, the canonical URL, computed from the id.
Url(id) == <<"/catalog/genre/", id>>

GenreListUrl == <<"/catalog/genres">>
NoUrl == <<>>

\* ---------------------------------------------------------------- responses
NoneDeleted == {}

\* res is what the last handled request produced: the handler, what it sent
\* (a rendered view, a redirect, or an error passed to next()), the store
\* calls it issued and the collections its deletes removed documents from.
Response(op, kind, view, url, status, errors, calls, deleted) ==
  [op |-> op, kind |-> kind, view |-> view, url |-> url, status |-> status,
   errors |-> errors, calls |-> calls, deleted |-> deleted]

\* res.render(view, { ..., errors })
Render(op, view, errors, calls) ==
  Response(op, "render", view, NoUrl, 200, errors, calls, NoneDeleted)

\* res.redirect(url)
Redirect(op, url, calls, deleted) ==
  Response(op, "redirect", "", url, 302, <<>>, calls, deleted)

\* next(err): err.status is 404 for "Genre not found" and unset otherwise,
\* which the error handler treats as 500.
NextErr(op, status, calls) ==
  Response(op, "next", "", NoUrl, status, <<>>, calls, NoneDeleted)

\* A request slot: the handler running in it, where it is suspended, its
\* locals, the store operations it has issued and not yet seen settle, those
\* that failed, and the response it has sent.
NoResponse == Response("none", "none", "", NoUrl, 0, <<>>, <<>>, NoneDeleted)

Idle ==
  [op |-> "none", pc |-> "idle", genreId |-> 0, value |-> <<>>, bookIds |-> {},
   pending |-> {}, failed |-> {}, res |-> NoResponse]

Init ==
  /\ genres = {}
  /\ books = {}
  /\ instances = {}
  /\ nextGenreId = 1
  /\ res = NoResponse
  /\ reqs = [r \in Slots |-> Idle]

\* --------------------------------------------- handlers, one request each
\* exports.genre_detail
genre_detail(id) ==
  /\ res' = IF FindById(genres, id) = {}
            THEN NextErr("genre_detail", 404, <<"Genre.findById", "Book.find">>)
            ELSE Render("genre_detail", "genre_detail", <<>>,
                        <<"Genre.findById", "Book.find">>)
  /\ UNCHANGED <<store, reqs>>

\* What a create-POST leaves behind: the Genre collection, the next fresh
\* id and the response.
Outcome(gs, nextId, response) ==
  [genres |-> gs, nextGenreId |-> nextId, res |-> response]

\* genre_create_post without its lookup of an existing Genre.
CreatePost_NoLookup(name) ==
  LET body == BodyName(name) IN
  IF body.errors # <<>>
  THEN {Outcome(genres, nextGenreId,
                Render("genre_create_post", "genre_form", body.errors, <<>>))}
  ELSE IF nextGenreId <= MaxGenres
  THEN {Outcome(Save(genres, nextGenreId, body.value), nextGenreId + 1,
                Redirect("genre_create_post", Url(nextGenreId),
                         <<"Genre.findOne", "Genre.save">>, NoneDeleted))}
  ELSE {}

\* The body of genre_create_post on a submitted name, in the current store:
\* every outcome it can have. On validation errors it renders the form; if
\* a Genre has the name it redirects to one found; otherwise it saves a new
\* Genre (while a fresh id is left) and redirects to it.
CreatePost(name) ==
  LET body == BodyName(name) IN
  IF body.errors # <<>>
  THEN {Outcome(genres, nextGenreId,
                Render("genre_create_post", "genre_form", body.errors, <<>>))}
  ELSE IF FindOne(genres, body.value) # {}
  THEN {Outcome(genres, nextGenreId,
                Redirect("genre_create_post", Url(genreExists.id),
                         <<"Genre.findOne">>, NoneDeleted)) :
          genreExists \in FindOne(genres, body.value)}
  ELSE IF nextGenreId <= MaxGenres
  THEN {Outcome(Save(genres, nextGenreId, body.value), nextGenreId + 1,
                Redirect("genre_create_post", Url(nextGenreId),
                         <<"Genre.findOne", "Genre.save">>, NoneDeleted))}
  ELSE {}

\* exports.genre_create_post
genre_create_post(name) ==
  \E o \in CreatePost(name) :
    /\ genres' = o.genres
    /\ nextGenreId' = o.nextGenreId
    /\ res' = o.res
    /\ UNCHANGED <<books, instances, reqs>>

\* exports.genre_delete_get
genre_delete_get(id) ==
  /\ res' = IF FindById(genres, id) = {}
            THEN NextErr("genre_delete_get", 404, <<"Genre.findById", "Book.find">>)
            ELSE Render("genre_delete_get", "genre_delete", <<>>,
                        <<"Genre.findById", "Book.find">>)
  /\ UNCHANGED <<store, reqs>>

\* exports.genre_delete_post
genre_delete_post(genreId) ==
  LET associatedBooks == BookFind(books, genreId)
      bookIds == {book.id : book \in associatedBooks}
  IN
  /\ genres' = FindByIdAndDelete(genres, genreId)
  /\ books' = BookDeleteMany(books, genreId)
  /\ instances' = BookinstanceDeleteMany(instances, bookIds)
  /\ res' = Redirect("genre_delete_post", GenreListUrl,
                     <<"Book.find", "Genre.findByIdAndDelete", "Book.deleteMany",
                       "Bookinstance.deleteMany">>,
                     {c \in {"Genre", "Book", "Bookinstance"} :
                        \/ c = "Genre" /\ genres' # genres
                        \/ c = "Book" /\ books' # books
                        \/ c = "Bookinstance" /\ instances' # instances})
  /\ UNCHANGED <<nextGenreId, reqs>>

\* genre_update_get without its null check.
genre_update_get_NoCheck(id) ==
  /\ res' = Render("genre_update_get", "genre_form", <<>>, <<"Genre.findById">>)
  /\ UNCHANGED <<store, reqs>>

\* exports.genre_update_get
genre_update_get(id) ==
  /\ res' = IF FindById(genres, id) = {}
            THEN NextErr("genre_update_get", 404, <<"Genre.findById">>)
            ELSE Render("genre_update_get", "genre_form", <<>>, <<"Genre.findById">>)
  /\ UNCHANGED <<store, reqs>>

\* validationResult(req) in genre_update_post: the handler is exported
\* without a validation chain, so no validator has run on the request.
UpdateErrors(name) == <<>>

\* exports.genre_update_post
genre_update_post(id, name) ==
  IF UpdateErrors(name) # <<>>
  THEN /\ res' = Render("genre_update_post", "genre_form", UpdateErrors(name), <<>>)
       /\ UNCHANGED <<store, reqs>>
  ELSE IF ~SchemaValidates(name) \/ FindById(genres, id) = {}
  THEN \* the validators reject the update, or updatedGenre is null and
       \* reading its url throws: either way the catch forwards the error
       /\ res' = NextErr("genre_update_post", 500, <<"Genre.findOneAndUpdate">>)
       /\ UNCHANGED <<store, reqs>>
  ELSE /\ genres' = FindOneAndUpdate(genres, id, name)
       /\ res' = Redirect("genre_update_post", Url(id),
                          <<"Genre.findOneAndUpdate">>, NoneDeleted)
       /\ UNCHANGED <<books, instances, nextGenreId, reqs>>

\* A name a client submits: any string, in particular one the catalogue
\* already shows.
Submitted == Names \cup {g.name : g \in genres}

Next ==
  \/ \E name \in Submitted : genre_create_post(name)
  \/ \E id \in GenreIds, name \in Submitted : genre_update_post(id, name)
  \/ \E id \in GenreIds : genre_delete_post(id)

\* Requests handled one at a time, with every name a client may submit.
Spec == Init /\ [][Next]_vars

\* ------------------------------------------------ the rest of the catalogue
\* The least of a non-empty set of numbers: which fresh id a new document
\* gets, and which free slot a request, makes no difference to any handler.
Least(ids) == CHOOSE id \in ids : \A other \in ids : id <= other

\* Books and BookInstances are created by other controllers: a Book
\* references zero or more of the Genres on offer, a BookInstance one Book.
FreeBookIds == BookIds \ ({b.id : b \in books} \cup {i.book : i \in instances})
FreeInstanceIds == InstanceIds \ {i.id : i \in instances}

BookCreate(genre) ==
  /\ FreeBookIds # {}
  /\ genre \subseteq {g.id : g \in genres}
  /\ books' = books \cup {[id |-> Least(FreeBookIds), genre |-> genre]}
  /\ UNCHANGED <<genres, instances, nextGenreId, res, reqs>>

BookinstanceCreate(book) ==
  /\ FreeInstanceIds # {}
  /\ book \in {b.id : b \in books}
  /\ instances' = instances \cup {[id |-> Least(FreeInstanceIds), book |-> book]}
  /\ UNCHANGED <<genres, books, nextGenreId, res, reqs>>

\* Two valid names, enough to tell one Genre from another.
CatalogNames == {<<"a", "a", "a">>, <<"a", "&", "a">>}

NextCatalog ==
  \/ \E name \in CatalogNames : genre_create_post(name)
  \/ \E id \in GenreIds : genre_delete_post(id)
  \/ \E id \in GenreIds : genre_detail(id)
  \/ \E id \in GenreIds : genre_delete_get(id)
  \/ \E id \in GenreIds : genre_update_get(id)
  \/ \E genre \in SUBSET GenreIds : BookCreate(genre)
  \/ \E book \in BookIds : BookinstanceCreate(book)

\* Requests handled one at a time, over a catalogue of Books and BookInstances.
SpecCatalog == Init /\ [][NextCatalog]_vars

\* -------------------------------------------- handlers, one await at a time
\* A handler runs until it awaits a store operation, and the store performs
\* that operation at some later step: other requests may act in between.
Set(r, rec) == [reqs EXCEPT ![r] = rec]

\* genre_create_post up to its first await: the validation chain has run; on
\* errors the form is rendered, otherwise Genre.findOne is awaited.
CreateReceive(r, name) ==
  LET body == BodyName(name) IN
  /\ reqs[r].pc = "idle"
  /\ r = Least({q \in Slots : reqs[q].pc = "idle"})
  /\ reqs' = Set(r,
       IF body.errors # <<>>
       THEN [reqs[r] EXCEPT !.op = "genre_create_post", !.pc = "done",
               !.value = body.value,
               !.res = Render("genre_create_post", "genre_form", body.errors, <<>>)]
       ELSE [reqs[r] EXCEPT !.op = "genre_create_post", !.pc = "findOne",
               !.value = body.value])
  /\ UNCHANGED <<store, res>>

\* Genre.findOne settles: redirect to the Genre found, or call genre.save()
\* and await it.
CreateFindOne(r) ==
  /\ reqs[r].op = "genre_create_post" /\ reqs[r].pc = "findOne"
  /\ IF FindOne(genres, reqs[r].value) # {}
     THEN \E genreExists \in FindOne(genres, reqs[r].value) :
            reqs' = Set(r, [reqs[r] EXCEPT !.pc = "done",
                      !.res = Redirect("genre_create_post", Url(genreExists.id),
                                       <<"Genre.findOne">>, NoneDeleted)])
     ELSE reqs' = Set(r, [reqs[r] EXCEPT !.pc = "save"])
  /\ UNCHANGED <<store, res>>

\* genre.save() settles: the document is inserted under its own new id and
\* the handler redirects to it.
CreateSave(r) ==
  /\ reqs[r].op = "genre_create_post" /\ reqs[r].pc = "save"
  /\ nextGenreId <= MaxGenres
  /\ genres' = Save(genres, nextGenreId, reqs[r].value)
  /\ nextGenreId' = nextGenreId + 1
  /\ reqs' = Set(r, [reqs[r] EXCEPT !.pc = "done",
               !.res = Redirect("genre_create_post", Url(nextGenreId),
                                <<"Genre.findOne", "Genre.save">>, NoneDeleted)])
  /\ UNCHANGED <<books, instances, res>>

NextRace ==
  \/ \E r \in Slots, name \in Names : CreateReceive(r, name)
  \/ \E r \in Slots : CreateFindOne(r)
  \/ \E r \in Slots : CreateSave(r)

\* Concurrent create-POST requests, interleaved at their awaits.
SpecRace == Init /\ [][NextRace]_vars

DeleteCalls == {"Genre.findByIdAndDelete", "Book.deleteMany", "Bookinstance.deleteMany"}

\* genre_delete_post up to its first await, Book.find; one request at a time.
DeleteReceive(r, genreId) ==
  /\ \A q \in Slots : reqs[q].pc = "idle"
  /\ r = Least(Slots)
  /\ reqs' = Set(r, [reqs[r] EXCEPT !.op = "genre_delete_post", !.pc = "find",
               !.genreId = genreId])
  /\ UNCHANGED <<store, res>>

\* Book.find settles: the book ids are collected and the three deletes are
\* issued together under Promise.all.
DeleteFind(r) ==
  /\ reqs[r].op = "genre_delete_post" /\ reqs[r].pc = "find"
  /\ reqs' = Set(r, [reqs[r] EXCEPT !.pc = "deleting",
               !.bookIds = {book.id : book \in BookFind(books, reqs[r].genreId)},
               !.pending = DeleteCalls])
  /\ UNCHANGED <<store, res>>

\* What Promise.all makes of one more settled delete: it rejects at the first
\* failure, and the handler then passes the error to next(); it resolves when
\* all three have succeeded, and the handler then redirects to the list. A
\* response already sent stays.
Answer(rec, pending, failed) ==
  IF rec.res.kind # "none" THEN rec.res
  ELSE IF failed # {}
  THEN NextErr("genre_delete_post", 500,
               <<"Book.find", "Genre.findByIdAndDelete", "Book.deleteMany",
                 "Bookinstance.deleteMany">>)
  ELSE IF pending = {}
  THEN Redirect("genre_delete_post", GenreListUrl,
                <<"Book.find", "Genre.findByIdAndDelete", "Book.deleteMany",
                  "Bookinstance.deleteMany">>, NoneDeleted)
  ELSE rec.res

\* A failure that cancels the deletes still in flight.
AfterFailure_Cancel(pending, call) == {}

\* The delete operations still to settle once one of them has failed: nothing
\* cancels them.
AfterFailure(pending, call) == pending \ {call}

\* One of the three deletes succeeds in the store.
DeleteSucceed(r, call) ==
  /\ reqs[r].op = "genre_delete_post" /\ reqs[r].pc = "deleting"
  /\ call \in reqs[r].pending
  /\ genres' = IF call = "Genre.findByIdAndDelete"
               THEN FindByIdAndDelete(genres, reqs[r].genreId) ELSE genres
  /\ books' = IF call = "Book.deleteMany"
              THEN BookDeleteMany(books, reqs[r].genreId) ELSE books
  /\ instances' = IF call = "Bookinstance.deleteMany"
                  THEN BookinstanceDeleteMany(instances, reqs[r].bookIds)
                  ELSE instances
  /\ LET pending == reqs[r].pending \ {call} IN
     reqs' = Set(r, [reqs[r] EXCEPT
               !.pending = pending,
               !.pc = IF pending = {} THEN "done" ELSE "deleting",
               !.res = Answer(reqs[r], pending, reqs[r].failed)])
  /\ UNCHANGED <<nextGenreId, res>>

\* One of the three deletes fails in the store and changes nothing.
DeleteFail(r, call) ==
  /\ reqs[r].op = "genre_delete_post" /\ reqs[r].pc = "deleting"
  /\ call \in reqs[r].pending
  /\ LET pending == AfterFailure(reqs[r].pending, call)
         failed == reqs[r].failed \cup {call}
     IN
     reqs' = Set(r, [reqs[r] EXCEPT
               !.pending = pending,
               !.failed = failed,
               !.pc = IF pending = {} THEN "done" ELSE "deleting",
               !.res = Answer(reqs[r], pending, failed)])
  /\ UNCHANGED <<store, res>>

\* The request is over; its slot takes the next one.
DeleteFinish(r) ==
  /\ reqs[r].op = "genre_delete_post" /\ reqs[r].pc = "done"
  /\ reqs' = Set(r, Idle)
  /\ UNCHANGED <<store, res>>

\* A catalogue as SpecCatalog builds it: two Genres, every Book with some of
\* them as its genres, every BookInstance of some Book.
InitCascade ==
  /\ genres = {[id |-> 1, name |-> <<"a", "a", "a">>],
               [id |-> 2, name |-> <<"a", "&", "a", "m", "p", ";", "a">>]}
  /\ nextGenreId = 3
  /\ \E genreOf \in [BookIds -> SUBSET {1, 2}] :
       books = {[id |-> b, genre |-> genreOf[b]] : b \in BookIds}
  /\ \E bookOf \in [InstanceIds -> BookIds] :
       instances = {[id |-> i, book |-> bookOf[i]] : i \in InstanceIds}
  /\ res = NoResponse
  /\ reqs = [r \in Slots |-> Idle]

NextCascade ==
  \/ \E r \in Slots, genreId \in GenreIds : DeleteReceive(r, genreId)
  \/ \E r \in Slots : DeleteFind(r)
  \/ \E r \in Slots, call \in DeleteCalls : DeleteSucceed(r, call)
  \/ \E r \in Slots, call \in DeleteCalls : DeleteFail(r, call)
  \/ \E r \in Slots : DeleteFinish(r)

\* delete-POST requests one at a time, each of their store deletes free to
\* fail.
SpecCascade == InitCascade /\ [][NextCascade]_vars

\* ==================================================================== claims
\* The length of a name once the whitespace around it is dropped, counted
\* from its first to its last character that is not whitespace.
NonSpace(name) == {i \in 1..Len(name) : name[i] # " "}
TrimmedLength(name) ==
  IF NonSpace(name) = {} THEN 0
  ELSE 1 + (CHOOSE i \in NonSpace(name) : \A j \in NonSpace(name) : j <= i)
         - (CHOOSE i \in NonSpace(name) : \A j \in NonSpace(name) : i <= j)

\* The name create-POST works with: the submitted name, trimmed and escaped.
Sanitized(name) == Escape(Trim(name))

Named(gs, name) == {g \in gs : g.name = name}

\* C1: a delete-POST for genre G removes Genre G, every Book whose genre
\* references include G and every BookInstance of such a Book, leaves every
\* other Genre, Book and BookInstance as it was, and redirects to the list.
C1_CascadeDelete ==
  [][\A G \in GenreIds :
       (res'.op = "genre_delete_post" /\ genre_delete_post(G)) =>
         /\ genres' = {g \in genres : g.id # G}
         /\ books' = {b \in books : G \notin b.genre}
         /\ instances' =
              {i \in instances : \A b \in books : b.id = i.book => G \notin b.genre}
         /\ res'.kind = "redirect" /\ res'.url = GenreListUrl]_vars

\* A cascade has removed a Genre, a Book and a BookInstance, and a Genre, a
\* Book and a BookInstance it did not concern remain.
C1_Witness ==
  /\ res.op = "genre_delete_post"
  /\ res.deleted = {"Genre", "Book", "Bookinstance"}
  /\ genres # {} /\ books # {} /\ instances # {}

\* What C2 promises of a create-POST step: exactly one Genre is added, it
\* bears the expected name, and the response redirects to its URL.
AddsOne(before, o, expected) ==
  \E g \in o.genres \ before :
    /\ o.genres = before \cup {g}
    /\ g.name = expected
    /\ g.id \notin {h.id : h \in before}
    /\ o.res.kind = "redirect" /\ o.res.url = Url(g.id)

\* What C3 promises of a create-POST step: the Genres are as before and the
\* response redirects to the URL of a Genre that has the expected name.
AddsNone(before, o, expected) ==
  /\ o.genres = before
  /\ o.nextGenreId = nextGenreId
  /\ o.res.kind = "redirect"
  /\ \E g \in Named(before, expected) : o.res.url = Url(g.id)

\* C2 as stated: a create-POST of a name whose trimmed length is at least 3
\* and that no Genre has adds exactly one Genre with the submitted name and
\* redirects to its URL.
C2_AsStated ==
  [][res'.op = "genre_create_post" =>
       \A name \in Submitted :
         (/\ TrimmedLength(name) >= MinNameLen
          /\ Named(genres, name) = {}
          /\ genre_create_post(name))
         => AddsOne(genres, Outcome(genres', nextGenreId', res'), name)]_vars

\* C2, amended: a create-POST of a name whose trimmed length is at least 3
\* and whose trimmed, escaped form no Genre has adds exactly one Genre, named
\* by that trimmed, escaped form and with a new id, changes no other Genre
\* and redirects to the new Genre's URL.
C2_CreateInsertsSanitized ==
  \A name \in Submitted :
    (TrimmedLength(name) >= MinNameLen /\ Named(genres, Sanitized(name)) = {})
    => \A o \in CreatePost(name) : AddsOne(genres, o, Sanitized(name))

\* A create-POST has inserted a second Genre, its name the escaped form of a
\* submitted name, and redirected to it.
C2_Witness ==
  /\ res.op = "genre_create_post" /\ res.kind = "redirect"
  /\ res.calls = <<"Genre.findOne", "Genre.save">>
  /\ Cardinality(genres) = 2
  /\ \E g \in genres :
       /\ res.url = Url(g.id)
       /\ g.name = <<"a", "&", "a", "m", "p", ";", "a">>

\* C3 as stated: a create-POST of a name equal to the name of an existing
\* Genre inserts nothing, leaves the store unchanged and redirects to that
\* Genre's URL.
C3_AsStated ==
  [][res'.op = "genre_create_post" =>
       \A name \in Submitted :
         (Named(genres, name) # {} /\ genre_create_post(name))
         => AddsNone(genres, Outcome(genres', nextGenreId', res'), name)]_vars

\* C3, amended: a create-POST of a valid name whose trimmed, escaped form is
\* the name of an existing Genre leaves the store unchanged and redirects to
\* the URL of a Genre with that name; and after any create-POST that
\* redirects, the same submission made again changes nothing and redirects
\* to a Genre with the trimmed, escaped name, the Genre of the first redirect
\* when the first submission inserted it.
C3_DuplicateIsIdempotent ==
  \A name \in Submitted :
    \A o \in CreatePost(name) :
      /\ (TrimmedLength(name) >= MinNameLen /\ Named(genres, Sanitized(name)) # {})
         => AddsNone(genres, o, Sanitized(name))
      /\ o.res.kind = "redirect"
         => /\ TrimmedLength(name) >= MinNameLen
            /\ \E g \in Named(o.genres, Sanitized(name)) : o.res.url = Url(g.id)
            /\ Named(genres, Sanitized(name)) = {}
               => Named(o.genres, Sanitized(name)) \subseteq
                    {g \in o.genres : o.res.url = Url(g.id)}

\* A create-POST found the Genre that has its name and redirected to it,
\* saving nothing.
C3_Witness ==
  /\ res.op = "genre_create_post" /\ res.kind = "redirect"
  /\ res.calls = <<"Genre.findOne">>
  /\ \E g \in genres : res.url = Url(g.id)

\* C4: a create-POST of a name whose trimmed length is below 3 issues no
\* operation on the Genre collection, leaves the store unchanged and renders
\* the creation form again with a non-empty list of validation errors.
C4_ShortNameRejected ==
  \A name \in Submitted :
    TrimmedLength(name) < MinNameLen
    => /\ CreatePost(name) # {}
       /\ \A o \in CreatePost(name) :
            /\ o.genres = genres /\ o.nextGenreId = nextGenreId
            /\ o.res.kind = "render" /\ o.res.view = "genre_form"
            /\ o.res.errors # <<>>
            /\ o.res.calls = <<>>

\* A create-POST was answered with the form and an error while a Genre is in
\* the store.
C4_Witness ==
  /\ res.op = "genre_create_post" /\ res.kind = "render"
  /\ res.errors # <<>>
  /\ genres # {}

\* C5: for an id that matches no Genre, the detail, delete-GET and update-GET
\* handlers each pass an error of status 404 to next(), render no view and
\* leave the store unchanged; for an id that matches a Genre each renders its
\* view and passes no error.
C5_NotFoundOrView ==
  [][\A id \in GenreIds :
       \A h \in {"genre_detail", "genre_delete_get", "genre_update_get"} :
         (\/ h = "genre_detail" /\ res'.op = h /\ genre_detail(id)
          \/ h = "genre_delete_get" /\ res'.op = h /\ genre_delete_get(id)
          \/ h = "genre_update_get" /\ res'.op = h /\ genre_update_get(id))
         => /\ UNCHANGED store
            /\ res'.op = h
            /\ (\A g \in genres : g.id # id)
               => res'.kind = "next" /\ res'.status = 404 /\ res'.view = ""
            /\ (\E g \in genres : g.id = id)
               => /\ res'.kind = "render"
                  /\ res'.view = CASE h = "genre_detail" -> "genre_detail"
                                   [] h = "genre_delete_get" -> "genre_delete"
                                   [] h = "genre_update_get" -> "genre_form"]_vars

\* The update form was refused with a 404 while another Genre is in the store.
C5_Witness ==
  /\ res.op = "genre_update_get" /\ res.kind = "next" /\ res.status = 404
  /\ genres # {}

C7_StoredNamesLongEnough ==
  \A g \in genres : TrimmedLength(g.name) >= MinNameLen

\* C8: with requests handled one at a time, no two Genres in the store have
\* the same name.
C8_NamesUnique ==
  \A g1 \in genres, g2 \in genres : g1.name = g2.name => g1 = g2

\* C9: two create-POST requests that both passed the existence check with the
\* same name and both saved have each inserted a Genre of its own: two
\* Genres share the name and the two responses redirect to different URLs.
C9_RaceInsertsTwice ==
  \A r1 \in Slots, r2 \in Slots :
    (/\ r1 # r2
     /\ reqs[r1].res.calls = <<"Genre.findOne", "Genre.save">>
     /\ reqs[r2].res.calls = <<"Genre.findOne", "Genre.save">>
     /\ reqs[r1].value = reqs[r2].value)
    => /\ reqs[r1].res.url # reqs[r2].res.url
       /\ \E g1 \in genres, g2 \in genres :
            /\ g1.id # g2.id
            /\ g1.name = reqs[r1].value /\ g2.name = reqs[r1].value
            /\ reqs[r1].res.url = Url(g1.id) /\ reqs[r2].res.url = Url(g2.id)

\* Two interleaved create-POST requests of one name have both redirected,
\* after their saves, and two Genres in the store have the same name.
C9_Witness ==
  /\ \E r1 \in Slots, r2 \in Slots :
       /\ r1 # r2
       /\ reqs[r1].res.calls = <<"Genre.findOne", "Genre.save">>
       /\ reqs[r2].res.calls = <<"Genre.findOne", "Genre.save">>
       /\ reqs[r1].value = reqs[r2].value
       /\ reqs[r1].res.kind = "redirect" /\ reqs[r2].res.kind = "redirect"
  /\ \E g1 \in genres, g2 \in genres : g1.id # g2.id /\ g1.name = g2.name

\* C10: once the three deletes of a delete-POST have settled, each of them
\* that did not fail has taken effect whatever became of the others, and the
\* handler has passed an error to next() and not redirected if one of them
\* failed; it redirects only when none failed.
C10_NoRollback ==
  \A r \in Slots :
    reqs[r].op = "genre_delete_post" =>
      /\ reqs[r].res.kind = "redirect" => reqs[r].failed = {} /\ reqs[r].pending = {}
      /\ reqs[r].failed # {} => reqs[r].res.kind = "next"
      /\ reqs[r].pc = "done" =>
           /\ reqs[r].res.kind \in {"redirect", "next"}
           /\ reqs[r].failed \cup
                {c \in DeleteCalls :
                   \/ c = "Genre.findByIdAndDelete"
                        /\ \A g \in genres : g.id # reqs[r].genreId
                   \/ c = "Book.deleteMany"
                        /\ \A b \in books : reqs[r].genreId \notin b.genre
                   \/ c = "Bookinstance.deleteMany"
                        /\ \A i \in instances : i.book \notin reqs[r].bookIds}
              = DeleteCalls

\* The Book delete of a delete-POST failed: the Genre and the BookInstances
\* are gone, a Book that references the Genre remains, and the handler
\* answered with the error.
C10_Witness ==
  \E r \in Slots :
    /\ reqs[r].op = "genre_delete_post" /\ reqs[r].pc = "done"
    /\ reqs[r].failed = {"Book.deleteMany"}
    /\ reqs[r].res.kind = "next"
    /\ reqs[r].bookIds # {}
    /\ \A g \in genres : g.id # reqs[r].genreId
    /\ \E b \in books : reqs[r].genreId \in b.genre
    /\ \A i \in instances : i.book \notin reqs[r].bookIds
    /\ instances # {}

====
